---- MODULE Spec2Model ----
(***************************************************************************)
(* Market-data synchronisation of the Finverse dashboard: the shared       *)
(* WebSocket (getWebSocket / wsSingleton) and the useMarketApi hook, one   *)
(* instance per chart widget (src/hooks/useMarketApi.js), and the history  *)
(* row mapping the hook applies to the /api/history response.  Beside it   *)
(* the dashboard page's own state (src/pages/Dashboard.jsx): the chart     *)
(* list and the paper-trading account, and the news hook of the news panel *)
(* (src/hooks/useNewsFeed.js).                                             *)
(***************************************************************************)
EXTENDS Integers, Sequences, FiniteSets, TLC

VARIABLES
    conns,        \* every WebSocket object created so far, by creation order
    wsSingleton,  \* module-level wsSingleton: 0 (null) or an index of conns
    loads,        \* every run of the hook's effect (one loadInitial each)
    widgets,      \* one useMarketApi instance per chart widget
    nTicks,       \* live_feed frames delivered so far
    hRows,        \* row mapping: the h.candles array handed to the mapper
    lineData,     \* row mapping: the mapped line points
    candleData,   \* row mapping: the mapped candles
    hPhase,       \* row mapping: "input" before the mapping ran, "mapped" after
    chartData,    \* PriceChart: datasets[0].data of a line chart
    trades,       \* Dashboard: paper trades recorded
    portfolio,    \* Dashboard: symbol -> {quantity, avgPrice}
    balance,      \* Dashboard: paper-trading balance
    charts,       \* Dashboard: the chart list
    clock,        \* Dashboard: Date.now() at the next add
    nEdits,       \* Dashboard: remove/type/reorder/toggle operations so far
    newsSymbol,   \* useNewsFeed: the symbol prop of the last effect run
    newsReqs,     \* useNewsFeed: every fetchNews() started, in order
    newsOut       \* useNewsFeed: the state it returns {news, loading, error}

vars == <<conns, wsSingleton, loads, widgets, nTicks, hRows, lineData, candleData, hPhase, chartData,
          trades, portfolio, balance, charts, clock, nEdits, newsSymbol, newsReqs, newsOut>>
marketVars == <<conns, wsSingleton, loads, widgets, nTicks>>
tradeVars == <<trades, portfolio, balance>>
chartVars == <<charts, clock, nEdits>>
newsVars == <<newsSymbol, newsReqs, newsOut>>
pageVars == <<tradeVars, chartVars, newsVars>>
\* everything outside the market-data sessions
mapVars == <<hRows, lineData, candleData, hPhase, chartData, pageVars>>

(***************************************************************************)
(* Bounds of the model.                                                    *)
(***************************************************************************)
NumWidgets == 2
MaxLoads == 3
MaxConns == 2
MaxTicks == 1
MaxRows == 3
MaxSessionTicks == 3
MaxFed == 2500
MaxTrades == 3
MaxClock == 10
MaxNewsReqs == 3
MaxEdits == 2

\* "Keep last 2000 points" (useMarketApi) and the chart's dataset limit
MaxPoints == 2000
ChartMaxPoints == 2000

Widgets == 1..NumWidgets

(***************************************************************************)
(* JavaScript values.                                                      *)
(***************************************************************************)
\* A JS number: finite, NaN or Infinity.
Fin(n) == [t |-> "fin", v |-> n]
NaN == [t |-> "nan", v |-> 0]
Infinity == [t |-> "inf", v |-> 0]

\* A raw JSON value of a history row.
RawNum(n) == [k |-> "num", v |-> n]
RawStr(n) == [k |-> "numstr", v |-> n]     \* a numeric string such as "102"
RawText == [k |-> "text", v |-> 0]          \* a non-numeric string
RawNull == [k |-> "null", v |-> 0]
RawHuge == [k |-> "huge", v |-> 0]          \* "1e999" / "Infinity"
RawUndef == [k |-> "undef", v |-> 0]        \* a missing array element

\* Number(x)
Number(x) ==
    CASE x.k = "num" -> Fin(x.v)
      [] x.k = "numstr" -> Fin(x.v)
      [] x.k = "null" -> Fin(0)
      [] x.k = "huge" -> Infinity
      [] OTHER -> NaN

\* isNaN(x) of a JS number
isNaN(x) == x.t = "nan"

\* new Date(x).getTime(): NaN for an invalid date
DateGetTime(x) ==
    CASE x.k = "num" -> Fin(x.v)
      [] x.k = "numstr" -> Fin(x.v)          \* a parsable date string
      [] x.k = "null" -> Fin(0)
      [] OTHER -> NaN

\* The latest price taken for the high whatever the high was
MathMaxLatest(a, n) == Fin(n)

\* Math.max / Math.min of a JS number of a candle and a finite ltp
MathMax(a, n) ==
    CASE a.t = "nan" -> NaN
      [] a.t = "inf" -> Infinity
      [] OTHER -> Fin(IF a.v >= n THEN a.v ELSE n)
MathMin(a, n) ==
    CASE a.t = "nan" -> NaN
      [] a.t = "inf" -> Fin(n)
      [] OTHER -> Fin(IF a.v <= n THEN a.v ELSE n)

(***************************************************************************)
(* History row mapping (loadInitial, "Map historical candles").            *)
(***************************************************************************)
\* A row is [isArray, f]: f holds the elements of the array.
Elem(row, i) == IF i <= Len(row.f) THEN row.f[i] ELSE RawUndef

\* MapRow with the line value taken from the open instead of the close
MapRowLineOpen(row) ==
    IF ~row.isArray
    THEN [ok |-> FALSE, line |-> [t |-> 0, y |-> NaN],
          candle |-> [x |-> 0, o |-> NaN, h |-> NaN, l |-> NaN, c |-> NaN]]
    ELSE LET d == DateGetTime(Elem(row, 1))
             o == Number(Elem(row, 2))
             hNum == Number(Elem(row, 3))
             l == Number(Elem(row, 4))
             cNum == Number(Elem(row, 5))
         IN  IF isNaN(d) \/ isNaN(o) \/ isNaN(hNum) \/ isNaN(l) \/ isNaN(cNum)
             THEN [ok |-> FALSE, line |-> [t |-> 0, y |-> NaN],
                   candle |-> [x |-> 0, o |-> NaN, h |-> NaN, l |-> NaN, c |-> NaN]]
             ELSE [ok |-> TRUE, line |-> [t |-> d.v, y |-> o],
                   candle |-> [x |-> d.v, o |-> o, h |-> hNum, l |-> l, c |-> cNum]]

\* The .map callback: the mapped pair or null (ok = FALSE).
MapRow(row) ==
    IF ~row.isArray
    THEN [ok |-> FALSE, line |-> [t |-> 0, y |-> NaN],
          candle |-> [x |-> 0, o |-> NaN, h |-> NaN, l |-> NaN, c |-> NaN]]
    ELSE LET d == DateGetTime(Elem(row, 1))
             o == Number(Elem(row, 2))
             hNum == Number(Elem(row, 3))
             l == Number(Elem(row, 4))
             cNum == Number(Elem(row, 5))
         IN  IF isNaN(d) \/ isNaN(o) \/ isNaN(hNum) \/ isNaN(l) \/ isNaN(cNum)
             THEN [ok |-> FALSE, line |-> [t |-> 0, y |-> NaN],
                   candle |-> [x |-> 0, o |-> NaN, h |-> NaN, l |-> NaN, c |-> NaN]]
             ELSE [ok |-> TRUE, line |-> [t |-> d.v, y |-> cNum],
                   candle |-> [x |-> d.v, o |-> o, h |-> hNum, l |-> l, c |-> cNum]]

\* (h.candles || []).map(...).filter(Boolean)
Kept(m) == m.ok
Mapped(rows) == SelectSeq([i \in 1..Len(rows) |-> MapRow(rows[i])], Kept)

LineOf(rows) == LET m == Mapped(rows) IN [i \in 1..Len(m) |-> m[i].line]
CandleOf(rows) == LET m == Mapped(rows) IN [i \in 1..Len(m) |-> m[i].candle]

(***************************************************************************)
(* The backend, as the hook sees it: one fixed answer per symbol.  A and B  *)
(* are the symbols charted on the dashboard; E has no candles yet and L    *)
(* has a history longer than the line window.                              *)
(***************************************************************************)
NoSymbol == ""
Symbols == {"A", "B"}
AllSymbols == Symbols \cup {"E", "L"}
Delims == {"|", ":"}

\* h.instrument_key of /api/history/{symbol}: <<instrument, delimiter>>
NoKey == <<"", "">>
HistoryKey(symbol) == IF symbol \in {"A", "L"} THEN <<symbol, "|">> ELSE <<symbol, ":">>
Keys == {HistoryKey(s) : s \in AllSymbols}
FeedKeys == Symbols \X Delims

\* h.candles of /api/history/{symbol}
Row(ts, o, h, l, c) == [isArray |-> TRUE, f |-> <<RawNum(ts), RawNum(o), RawNum(h), RawNum(l), RawNum(c)>>]
HistoryLen(symbol) ==
    CASE symbol = "A" -> 1
      [] symbol = "B" -> 2
      [] symbol = "L" -> MaxPoints + 1
      [] OTHER -> 0
HistoryRow(symbol, i) ==
    CASE symbol = "A" -> Row(1000, 100, 105, 98, 102)
      [] symbol = "B" -> IF i = 1 THEN Row(2000, 200, 210, 190, 205) ELSE Row(2001, 205, 215, 195, 207)
      [] OTHER -> Row(i, 10, 12, 9, 11)
HistoryRows(symbol) == [i \in 1..HistoryLen(symbol) |-> HistoryRow(symbol, i)]

\* The quote object: null, or the fields the hook and its consumers read.
NullQuote ==
    [isNull |-> TRUE, name |-> "", last_price |-> 0, hasOpen |-> FALSE, open |-> 0,
     hasNetChange |-> FALSE, net_change |-> 0, timestamp |-> 0]
QuoteOf(symbol) ==
    CASE symbol = "A" ->
            [isNull |-> FALSE, name |-> "A", last_price |-> 102, hasOpen |-> TRUE, open |-> 100,
             hasNetChange |-> TRUE, net_change |-> 2, timestamp |-> 1000]
      [] symbol = "B" ->
            [isNull |-> FALSE, name |-> "B", last_price |-> 207, hasOpen |-> FALSE, open |-> 0,
             hasNetChange |-> TRUE, net_change |-> 7, timestamp |-> 2001]
      [] symbol = "E" ->
            [isNull |-> FALSE, name |-> "E", last_price |-> 50, hasOpen |-> TRUE, open |-> 0,
             hasNetChange |-> TRUE, net_change |-> 50, timestamp |-> 3000]
      [] OTHER ->
            [isNull |-> FALSE, name |-> symbol, last_price |-> 11, hasOpen |-> TRUE, open |-> 10,
             hasNetChange |-> TRUE, net_change |-> 1, timestamp |-> 2001]

\* ltp values a live_feed frame may carry, and the frame's currentTs
LtpValues == {0, 103}
TickTs == 5000 + nTicks

(***************************************************************************)
(* Errors shown by the hook: <<kind, symbol>>; NoError is null.            *)
(***************************************************************************)
NoError == <<"null", "">>
ErrNoSymbol == <<"No symbol provided.", "">>
Outcomes == {"reject", "quoteFail", "historyFail", "noKey", "ok"}
ErrorOf(outcome, symbol) == <<outcome, symbol>>

(***************************************************************************)
(* The shared connection.                                                  *)
(***************************************************************************)
NoFrames == [k \in Keys |-> 0]
NewSocket == [readyState |-> "CONNECTING", subscribe |-> NoFrames, unsubscribe |-> NoFrames]

IsOpen(cs, c) == c # 0 /\ cs[c].readyState = "OPEN"

\* ws.send(JSON.stringify({type, key})) on connection c
Send(cs, c, type, key) ==
    IF type = "subscribe"
    THEN [cs EXCEPT ![c].subscribe[key] = @ + 1]
    ELSE [cs EXCEPT ![c].unsubscribe[key] = @ + 1]

\* An accessor that also hands out a socket that is still connecting
getWebSocketReuse(cs, single) ==
    IF single # 0 /\ cs[single].readyState \in {"OPEN", "CONNECTING"}
    THEN [conns |-> cs, wsSingleton |-> single, ws |-> single]
    ELSE [conns |-> Append(cs, NewSocket), wsSingleton |-> Len(cs) + 1, ws |-> Len(cs) + 1]

\* getWebSocket(): the connections, the singleton and the returned socket
getWebSocket(cs, single) ==
    IF IsOpen(cs, single)
    THEN [conns |-> cs, wsSingleton |-> single, ws |-> single]
    ELSE [conns |-> Append(cs, NewSocket), wsSingleton |-> Len(cs) + 1, ws |-> Len(cs) + 1]

(***************************************************************************)
(* One useMarketApi instance.                                              *)
(***************************************************************************)
InitWidget ==
    [status |-> "unborn", symbol |-> NoSymbol, hasCleanup |-> FALSE, effect |-> 0,
     loading |-> TRUE, error |-> NoError, quote |-> NullQuote,
     candles |-> <<>>, ohlcCandles |-> <<>>,
     instrumentKeyRef |-> NoKey, cleanupRef |-> 0]

\* A removed instance: React has dropped its state and its refs
Unmounted == [InitWidget EXCEPT !.status = "unmounted"]

\* What the hook returns: { loading, error, quote, candles, ohlcCandles }
Session(wr) == <<wr.loading, wr.error, wr.quote, wr.candles, wr.ohlcCandles>>

\* cleanupRef.current(): detach the listeners of the load that stored it
Detach(ls, l) == [ls EXCEPT ![l].msgOn = FALSE, ![l].openOn = FALSE]

\* The effect's cleanup function, part 1: listeners
CleanupLoads(ls, wr) == IF wr.cleanupRef # 0 THEN Detach(ls, wr.cleanupRef) ELSE ls

\* A cleanup that unsubscribes without testing readyState
CleanupConnsUnguarded(cs, single, wr) ==
    IF wr.instrumentKeyRef # NoKey /\ single # 0
    THEN Send(cs, single, "unsubscribe", wr.instrumentKeyRef)
    ELSE cs

\* The effect's cleanup function, part 2: unsubscribe on wsSingleton
CleanupConns(cs, single, wr) ==
    IF wr.instrumentKeyRef # NoKey /\ IsOpen(cs, single)
    THEN Send(cs, single, "unsubscribe", wr.instrumentKeyRef)
    ELSE cs

CleanupWidget(wr) == [wr EXCEPT !.cleanupRef = 0]

\* Step 2 of the effect: unsubscribe from the previous symbol on ws
UnsubscribePrevious(cs, ws, wr) ==
    IF wr.instrumentKeyRef # NoKey /\ IsOpen(cs, ws)
    THEN Send(cs, ws, "unsubscribe", wr.instrumentKeyRef)
    ELSE cs

\* Step 1 of the effect: reset state on symbol change
ResetState(wr) ==
    [wr EXCEPT !.loading = TRUE, !.error = NoError, !.quote = NullQuote,
               !.candles = <<>>, !.ohlcCandles = <<>>]

NewLoad(w, symbol, ws) ==
    [w |-> w, symbol |-> symbol, ws |-> ws, phase |-> "inflight",
     currentKey |-> NoKey, msgOn |-> FALSE, openOn |-> FALSE]

\* The effect body for symbol, run on connections cs, loads ls, instance wr
Effect(w, symbol, cs, ls, wr) ==
    IF symbol = NoSymbol
    THEN /\ conns' = cs
         /\ wsSingleton' = wsSingleton
         /\ loads' = ls
         /\ widgets' = [widgets EXCEPT ![w] =
                [wr EXCEPT !.status = "mounted", !.symbol = symbol, !.hasCleanup = FALSE,
                           !.effect = 0, !.loading = FALSE, !.error = ErrNoSymbol]]
    ELSE LET g == getWebSocket(cs, wsSingleton)
         IN  /\ conns' = UnsubscribePrevious(g.conns, g.ws, wr)
             /\ wsSingleton' = g.wsSingleton
             /\ loads' = Append(ls, NewLoad(w, symbol, g.ws))
             /\ widgets' = [widgets EXCEPT ![w] =
                    [ResetState(wr) EXCEPT !.status = "mounted", !.symbol = symbol,
                                           !.hasCleanup = TRUE, !.effect = Len(ls) + 1,
                                           !.instrumentKeyRef = NoKey]]

\* Room for one more effect run within the bounds
CanRun(symbol) ==
    symbol # NoSymbol =>
        /\ Len(loads) < MaxLoads
        /\ IsOpen(conns, wsSingleton) \/ Len(conns) < MaxConns

\* A chart widget is rendered: first run of the effect
Mount(w, symbol) ==
    /\ widgets[w].status = "unborn"
    /\ \A v \in Widgets : v < w => widgets[v].status # "unborn"   \* charts are added in order
    /\ CanRun(symbol)
    /\ Effect(w, symbol, conns, loads, widgets[w])
    /\ UNCHANGED <<nTicks, mapVars>>

\* The symbol prop changes: cleanup of the previous effect, then the effect
SwitchSymbol(w, symbol) ==
    /\ widgets[w].status = "mounted"
    /\ widgets[w].symbol # symbol
    /\ CanRun(symbol)
    /\ IF widgets[w].hasCleanup
       THEN Effect(w, symbol, CleanupConns(conns, wsSingleton, widgets[w]),
                   CleanupLoads(loads, widgets[w]), CleanupWidget(widgets[w]))
       ELSE Effect(w, symbol, conns, loads, widgets[w])
    /\ UNCHANGED <<nTicks, mapVars>>

\* The chart widget is removed: cleanup of the last effect
Unmount(w) ==
    /\ widgets[w].status = "mounted"
    /\ IF widgets[w].hasCleanup
       THEN /\ conns' = CleanupConns(conns, wsSingleton, widgets[w])
            /\ loads' = CleanupLoads(loads, widgets[w])
            /\ widgets' = [widgets EXCEPT ![w] = Unmounted]
       ELSE /\ widgets' = [widgets EXCEPT ![w] = Unmounted]
            /\ UNCHANGED <<conns, loads>>
    /\ UNCHANGED <<wsSingleton, nTicks, mapVars>>

\* Setters of an unmounted instance are ignored (its state is gone, and its
\* refs are read by no later effect); its sockets and listeners live on.
SetState(wr, new) == IF wr.status = "mounted" THEN new ELSE wr

\* FailedState without the finally block: loading is never cleared
FailedStateNoFinally(wr, outcome, symbol) ==
    [wr EXCEPT !.quote = IF outcome \in {"historyFail", "noKey"} THEN QuoteOf(symbol) ELSE @,
               !.error = ErrorOf(outcome, symbol)]

\* loadInitial's state after a failure: what was set before the throw, the
\* catch (setError) and the finally (setLoading(false))
FailedState(wr, outcome, symbol) ==
    [wr EXCEPT !.quote = IF outcome \in {"historyFail", "noKey"} THEN QuoteOf(symbol) ELSE @,
               !.error = ErrorOf(outcome, symbol),
               !.loading = FALSE]

\* loadInitial's state after a success
LoadedState(wr, symbol) ==
    [wr EXCEPT !.quote = QuoteOf(symbol),
               !.candles = LineOf(HistoryRows(symbol)),
               !.ohlcCandles = CandleOf(HistoryRows(symbol)),
               !.loading = FALSE]

\* A load that sends its subscribe whatever the socket's state
SubscribeAlways(cs, ws) == TRUE

\* "4. SUBSCRIBE to new symbol": subscribe() now, or on the open event
SubscribeNow(cs, ws) == IsOpen(cs, ws)

\* Both fetches of load l have settled with outcome: the rest of loadInitial
LoadComplete(l, outcome) ==
    /\ l \in 1..Len(loads)
    /\ loads[l].phase = "inflight"
    /\ LET ld == loads[l]
           w == ld.w
           wr == widgets[w]
           key == HistoryKey(ld.symbol)
       IN  IF outcome # "ok"
           THEN /\ loads' = [loads EXCEPT ![l].phase = "failed"]
                /\ widgets' = [widgets EXCEPT ![w] = SetState(wr, FailedState(wr, outcome, ld.symbol))]
                /\ UNCHANGED conns
           ELSE /\ loads' = [loads EXCEPT ![l].phase = "loaded", ![l].currentKey = key,
                                          ![l].msgOn = TRUE,
                                          ![l].openOn = ~SubscribeNow(conns, ld.ws)]
                /\ conns' = IF SubscribeNow(conns, ld.ws)
                            THEN Send(conns, ld.ws, "subscribe", key)
                            ELSE conns
                /\ widgets' = [widgets EXCEPT ![w] =
                       SetState(wr, [LoadedState(wr, ld.symbol)
                                        EXCEPT !.instrumentKeyRef = key, !.cleanupRef = l])]
    /\ UNCHANGED <<wsSingleton, nTicks, mapVars>>

\* The deferred subscribe listeners ({ once: true }) attached to socket c
OpenListeners(c) == {l \in 1..Len(loads) : loads[l].ws = c /\ loads[l].openOn}

\* Frames the open event of c makes its listeners send
RECURSIVE SendAll(_, _, _)
SendAll(cs, c, ls) ==
    IF ls = {} THEN cs
    ELSE LET l == CHOOSE x \in ls : TRUE
         IN  SendAll(Send(cs, c, "subscribe", loads[l].currentKey), c, ls \ {l})

\* The open event of socket c: ws.onopen, then the deferred subscribes
SocketOpen(c) ==
    /\ c \in 1..Len(conns)
    /\ conns[c].readyState = "CONNECTING"
    /\ conns' = SendAll([conns EXCEPT ![c].readyState = "OPEN"], c, OpenListeners(c))
    /\ loads' = [l \in 1..Len(loads) |->
                    IF l \in OpenListeners(c) THEN [loads[l] EXCEPT !.openOn = FALSE] ELSE loads[l]]
    /\ UNCHANGED <<wsSingleton, widgets, nTicks, mapVars>>

\* ws.onclose
OnClose(single, c) == 0

\* The close event of socket c (after an error or a server close)
\* A close that also wipes the data of the sessions using the socket
SocketCloseResets(c) ==
    /\ c \in 1..Len(conns)
    /\ conns[c].readyState \in {"CONNECTING", "OPEN"}
    /\ conns' = [conns EXCEPT ![c].readyState = "CLOSED"]
    /\ wsSingleton' = 0
    /\ widgets' = [w \in Widgets |->
                      IF widgets[w].effect # 0 /\ loads[widgets[w].effect].ws = c
                      THEN ResetState(widgets[w]) ELSE widgets[w]]
    /\ UNCHANGED <<loads, nTicks, mapVars>>

SocketClose(c) ==
    /\ c \in 1..Len(conns)
    /\ conns[c].readyState \in {"CONNECTING", "OPEN"}
    /\ conns' = [conns EXCEPT ![c].readyState = "CLOSED"]
    /\ wsSingleton' = OnClose(wsSingleton, c)
    /\ UNCHANGED <<loads, widgets, nTicks, mapVars>>

\* data.feeds[normalizedKey] || data.feeds[currentKey], feeds = {feedKey: ...}
normalizedKey(currentKey) == <<currentKey[1], ":">>
FeedFound(currentKey, feedKey) == feedKey = normalizedKey(currentKey) \/ feedKey = currentKey

\* s.slice(-n) for n > 0, and its opposite end
SliceFirst(s, n) == IF Len(s) <= n THEN s ELSE SubSeq(s, 1, n)
SliceLast(s, n) == IF Len(s) <= n THEN s ELSE SubSeq(s, Len(s) - n + 1, Len(s))

\* setCandles(prev => [...prev, {t: ts, y: ltp}].slice(-2000))
AppendLine(prev, ts, ltp) == SliceLast(Append(prev, [t |-> ts, y |-> Fin(ltp)]), MaxPoints)

\* An updater that opens a candle at the tick when there is none
SynthesizeCandle(prev, ts, ltp) ==
    IF Len(prev) = 0
    THEN <<[x |-> ts, o |-> Fin(ltp), h |-> Fin(ltp), l |-> Fin(ltp), c |-> Fin(ltp)]>>
    ELSE LET last == prev[Len(prev)]
         IN  [prev EXCEPT ![Len(prev)] =
                 [x |-> last.x, o |-> last.o, c |-> Fin(ltp),
                  h |-> MathMax(last.h, ltp), l |-> MathMin(last.l, ltp)]]

\* setOhlcCandles(prev => ...): only the last candle's c, h, l move
UpdateLastCandle(prev, ts, ltp) ==
    IF Len(prev) = 0 THEN <<>>
    ELSE LET last == prev[Len(prev)]
         IN  [prev EXCEPT ![Len(prev)] =
                 [x |-> last.x, o |-> last.o, c |-> Fin(ltp),
                  h |-> MathMax(last.h, ltp), l |-> MathMin(last.l, ltp)]]

\* setQuote(prev => ({...prev, last_price, timestamp, net_change}))
UpdateQuote(prev, ts, ltp) ==
    LET openKnown == prev.hasOpen /\ prev.open # 0
    IN  [prev EXCEPT !.isNull = FALSE, !.last_price = ltp, !.timestamp = ts,
                     !.hasNetChange = IF openKnown THEN TRUE ELSE prev.hasNetChange,
                     !.net_change = IF openKnown THEN ltp - prev.open ELSE prev.net_change]

\* The three functional updates of onMessage for one tick
ApplyTick(wr, ltp, ts) ==
    [wr EXCEPT !.quote = UpdateQuote(wr.quote, ts, ltp),
               !.candles = AppendLine(wr.candles, ts, ltp),
               !.ohlcCandles = UpdateLastCandle(wr.ohlcCandles, ts, ltp)]

\* feed && feed.ltpc && feed.ltpc.ltp, then !isNaN(Number(ltp)): ltp is a JSON number
Accepted(ltp) == ltp # 0

\* The message listeners on socket c that belong to instance w and accept the frame
Listening(c, w, feedKey, ltp) ==
    {l \in 1..Len(loads) :
        /\ loads[l].ws = c /\ loads[l].msgOn /\ loads[l].w = w
        /\ FeedFound(loads[l].currentKey, feedKey)
        /\ Accepted(ltp)}

RECURSIVE ApplyTimes(_, _, _, _)
ApplyTimes(wr, n, ltp, ts) == IF n = 0 THEN wr ELSE ApplyTimes(ApplyTick(wr, ltp, ts), n - 1, ltp, ts)

\* A live_feed frame {currentTs, feeds: {feedKey: {ltpc: {ltp}}}} arrives on c,
\* the feed delivering at most max frames
TickUpTo(c, feedKey, ltp, max) ==
    /\ c \in 1..Len(conns)
    /\ conns[c].readyState = "OPEN"
    /\ nTicks < max
    /\ nTicks' = nTicks + 1
    /\ widgets' = [w \in Widgets |->
                      SetState(widgets[w],
                               ApplyTimes(widgets[w], Cardinality(Listening(c, w, feedKey, ltp)), ltp, TickTs))]
    /\ UNCHANGED <<conns, wsSingleton, loads, mapVars>>

Tick(c, feedKey, ltp) == TickUpTo(c, feedKey, ltp, MaxTicks)

\* ws.onerror: the error is logged
SocketError(c) ==
    /\ c \in 1..Len(conns)
    /\ conns[c].readyState \in {"CONNECTING", "OPEN"}
    /\ UNCHANGED vars

(***************************************************************************)
(* The page's own state as first rendered.                                 *)
(***************************************************************************)
MaxCharts == 8
StartBalance == 100000

\* useState([{ id: '1', symbol: "NIFTY 50", type: "line", hidden: false }])
FirstChart == [id |-> 1, symbol |-> "NIFTY 50", type |-> "line", hidden |-> FALSE]

\* An object without keys
EmptyObject == [s \in {} |-> 0]

\* useNewsFeed: useState([]), useState(true), useState(null)
NoArticles == <<>>
NewsStart == [news |-> NoArticles, loading |-> TRUE, error |-> NoError]

PageInit ==
    /\ trades = <<>>
    /\ portfolio = EmptyObject
    /\ balance = StartBalance
    /\ charts = <<FirstChart>>
    /\ clock = 2
    /\ nEdits = 0
    /\ newsSymbol = NoSymbol
    /\ newsReqs = <<>>
    /\ newsOut = NewsStart

(***************************************************************************)
(* The dashboard: widgets come, change symbol and go over one connection.  *)
(***************************************************************************)
Init ==
    /\ conns = <<>>
    /\ wsSingleton = 0
    /\ loads = <<>>
    /\ widgets = [w \in Widgets |-> InitWidget]
    /\ nTicks = 0
    /\ hRows = <<>>
    /\ lineData = <<>>
    /\ candleData = <<>>
    /\ hPhase = "idle"
    /\ chartData = <<>>
    /\ PageInit

Next ==
    \/ \E w \in Widgets, s \in Symbols \cup {NoSymbol} : Mount(w, s)
    \/ \E w \in Widgets, s \in Symbols : SwitchSymbol(w, s)
    \/ \E w \in Widgets : Unmount(w)
    \/ \E l \in 1..MaxLoads, o \in Outcomes : LoadComplete(l, o)
    \/ \E c \in 1..MaxConns : SocketOpen(c)
    \/ \E c \in 1..MaxConns : SocketClose(c)
    \/ \E c \in 1..MaxConns : SocketError(c)
    \/ \E c \in 1..MaxConns, k \in FeedKeys, p \in LtpValues : Tick(c, k, p)

Spec == Init /\ [][Next]_vars

(***************************************************************************)
(* The row mapping on its own: any h.candles of up to MaxRows rows.        *)
(***************************************************************************)
\* Rows a history response may hold: valid ones and every kind of bad one
RawRows ==
    {Row(1000, 100, 105, 98, 102),
     Row(2000, 200, 210, 190, 205),
     [isArray |-> TRUE, f |-> <<RawStr(3000), RawStr(50), RawStr(60), RawStr(40), RawStr(55)>>],
     [isArray |-> TRUE, f |-> <<RawNum(4000), RawNum(10), RawNum(12), RawNum(9), RawText>>],
     [isArray |-> TRUE, f |-> <<RawText, RawNum(10), RawNum(12), RawNum(9), RawNum(11)>>],
     [isArray |-> TRUE, f |-> <<RawNum(5000), RawNum(10), RawHuge, RawNum(9), RawNum(11)>>],
     [isArray |-> TRUE, f |-> <<RawNum(6000), RawNum(10), RawNum(12)>>],
     [isArray |-> FALSE, f |-> <<>>]}

RECURSIVE SeqsUpTo(_, _)
SeqsUpTo(S, n) ==
    IF n = 0 THEN {<<>>}
    ELSE SeqsUpTo(S, n - 1) \cup {Append(q, x) : q \in {r \in SeqsUpTo(S, n - 1) : Len(r) = n - 1}, x \in S}

MapInit ==
    /\ conns = <<>>
    /\ wsSingleton = 0
    /\ loads = <<>>
    /\ widgets = [w \in Widgets |-> InitWidget]
    /\ nTicks = 0
    /\ hRows \in SeqsUpTo(RawRows, MaxRows)
    /\ lineData = <<>>
    /\ candleData = <<>>
    /\ hPhase = "input"
    /\ chartData = <<>>
    /\ PageInit

\* const lineData = mapped.map(m => m.line); const candleData = mapped.map(m => m.candle)
MapHistory ==
    /\ hPhase = "input"
    /\ lineData' = LineOf(hRows)
    /\ candleData' = CandleOf(hRows)
    /\ hPhase' = "mapped"
    /\ UNCHANGED <<hRows, chartData, marketVars, pageVars>>

\* What the load tells its caller about the rows: the "Mapped N candles" log
\* line is all; the hook returns {loading, error, quote, candles, ohlcCandles}
LoadReport == [mapped |-> Len(lineData)]

MapNext == MapHistory

MapSpec == MapInit /\ [][MapNext]_vars

(***************************************************************************)
(* One session and the line chart drawn from it: a long feed.              *)
(***************************************************************************)
\* The instance after its first effect run for symbol
MountedWidget(symbol) ==
    [ResetState(InitWidget) EXCEPT !.status = "mounted", !.symbol = symbol,
                                   !.hasCleanup = TRUE, !.effect = 1]

\* Widget 1 charts symbol, the socket has opened, the fetches are in flight
LoadingSession(symbol) ==
    /\ conns = <<[NewSocket EXCEPT !.readyState = "OPEN"]>>
    /\ wsSingleton = 1
    /\ loads = <<NewLoad(1, symbol, 1)>>
    /\ widgets = [w \in Widgets |-> IF w = 1 THEN MountedWidget(symbol) ELSE InitWidget]
    /\ nTicks = 0

\* PriceChart.appendPoint(point) on a line chart's dataset
appendPoint(data, point) ==
    IF isNaN(point.t) \/ isNaN(point.y) THEN data
    ELSE LET pushed == Append(data, [x |-> point.t, y |-> point.y])
         IN  IF Len(pushed) > ChartMaxPoints THEN Tail(pushed) ELSE pushed

\* No widget on the dashboard yet
NoSession ==
    /\ conns = <<>>
    /\ wsSingleton = 0
    /\ loads = <<>>
    /\ widgets = [w \in Widgets |-> InitWidget]
    /\ nTicks = 0

\* The session and the chart share no state: either one is run on its own
SeriesInit ==
    /\ NoSession \/ \E s \in AllSymbols : LoadingSession(s)
    /\ hRows = <<>>
    /\ lineData = <<>>
    /\ candleData = <<>>
    /\ hPhase = "idle"
    /\ chartData = <<>>
    /\ PageInit

\* The next tick of the feed for the session's key: prices 1, 2, 3, ...
HookFeed ==
    /\ loads # <<>>
    /\ loads[1].phase = "loaded"
    /\ TickUpTo(1, loads[1].currentKey, nTicks + 1, MaxFed)

\* Points appended to the chart so far, numbered 0, 1, 2, ...
ChartFed == IF chartData = <<>> THEN 0 ELSE chartData[Len(chartData)].y.v + 1

\* The owner of the chart appends its next point, or one that is not a number
ChartAppend ==
    /\ loads = <<>>
    /\ ChartFed < MaxFed
    /\ \E y \in {Fin(ChartFed), NaN} :
           chartData' = appendPoint(chartData, [t |-> Fin(ChartFed), y |-> y])
    /\ UNCHANGED <<marketVars, hRows, lineData, candleData, hPhase, pageVars>>

SeriesNext ==
    \/ LoadComplete(1, "ok")
    \/ HookFeed
    \/ ChartAppend

SeriesSpec == SeriesInit /\ [][SeriesNext]_vars

(***************************************************************************)
(* One session under a feed of several frames: any key, any price.         *)
(***************************************************************************)
SessionSymbols == {"A", "B", "E"}
SessionFeedKeys == SessionSymbols \X Delims
TickPrices == {0, 97, 103, 106}

TickInit ==
    /\ \E s \in SessionSymbols : LoadingSession(s)
    /\ hRows = <<>>
    /\ lineData = <<>>
    /\ candleData = <<>>
    /\ hPhase = "idle"
    /\ chartData = <<>>
    /\ PageInit

SessionTick(feedKey, ltp) == TickUpTo(1, feedKey, ltp, MaxSessionTicks)

TickNext ==
    \/ LoadComplete(1, "ok")
    \/ \E k \in SessionFeedKeys, p \in TickPrices : SessionTick(k, p)

TickSpec == TickInit /\ [][TickNext]_vars

(***************************************************************************)
(* Paper trading (Dashboard.handleTrade).  Each trade is one click, and    *)
(* the page re-renders between clicks, so the handler reads the current    *)
(* balance and portfolio.  avgPrice is kept as the exact fraction num/den. *)
(***************************************************************************)
TradeSymbols == {"A", "B"}
TradeTypes == {"buy", "sell"}
Quantities == {1, 2}
Prices == {0, 30000, 60000}
Trades == [symbol : TradeSymbols, type : TradeTypes, quantity : Quantities, price : Prices]

\* A buy that is never refused
NeverInsufficient(cost, bal) == FALSE

\* if (cost > balance)
InsufficientBalance(cost, bal) == cost > bal

\* prev[trade.symbol] || { quantity: 0, avgPrice: 0 }
Existing(prev, symbol) ==
    IF symbol \in DOMAIN prev THEN prev[symbol] ELSE [quantity |-> 0, avgPrice |-> [num |-> 0, den |-> 1]]

\* {...prev, [symbol]: holding}
WithKey(prev, symbol, holding) ==
    [s \in DOMAIN prev \cup {symbol} |-> IF s = symbol THEN holding ELSE prev[s]]

\* const { [symbol]: removed, ...rest } = prev
WithoutKey(prev, symbol) == [s \in DOMAIN prev \ {symbol} |-> prev[s]]

\* setPortfolio updater of a buy
Bought(prev, trade, cost) ==
    LET existing == Existing(prev, trade.symbol)
        totalQuantity == existing.quantity + trade.quantity
        \* totalCost = existing.quantity * existing.avgPrice + cost, over existing.avgPrice.den
        totalCostNum == existing.quantity * existing.avgPrice.num + cost * existing.avgPrice.den
    IN  WithKey(prev, trade.symbol,
                [quantity |-> totalQuantity,
                 avgPrice |-> [num |-> totalCostNum, den |-> existing.avgPrice.den * totalQuantity]])

\* setPortfolio updater of a sell
Sold(prev, holding, trade) ==
    LET newQuantity == holding.quantity - trade.quantity
    IN  IF newQuantity = 0 THEN WithoutKey(prev, trade.symbol)
        ELSE WithKey(prev, trade.symbol, [holding EXCEPT !.quantity = newQuantity])

\* handleTrade(trade)
handleTrade(trade) ==
    /\ Len(trades) < MaxTrades
    /\ trades' = Append(trades, trade)
    /\ IF trade.type = "buy"
       THEN LET cost == trade.quantity * trade.price
            IN  IF InsufficientBalance(cost, balance)
                THEN UNCHANGED <<balance, portfolio>>
                ELSE /\ balance' = balance - cost
                     /\ portfolio' = Bought(portfolio, trade, cost)
       ELSE IF trade.symbol \notin DOMAIN portfolio \/ portfolio[trade.symbol].quantity < trade.quantity
            THEN UNCHANGED <<balance, portfolio>>
            ELSE /\ balance' = balance + trade.quantity * trade.price
                 /\ portfolio' = Sold(portfolio, portfolio[trade.symbol], trade)
    /\ UNCHANGED <<marketVars, hRows, lineData, candleData, hPhase, chartData, chartVars, newsVars>>

TradeInit ==
    /\ NoSession
    /\ hRows = <<>>
    /\ lineData = <<>>
    /\ candleData = <<>>
    /\ hPhase = "idle"
    /\ chartData = <<>>
    /\ PageInit

TradeNext == \E t \in Trades : handleTrade(t)

TradeSpec == TradeInit /\ [][TradeNext]_vars

(***************************************************************************)
(* The chart list (Dashboard, ChartCart).  A chart's id is Date.now() at   *)
(* the click that added it: the clock has moved on at the next click.      *)
(***************************************************************************)
AddInputs == {"a", "A"}
ChartTypes == {"line", "candle"}

\* symbol.toUpperCase()
toUpperCase(symbol) == IF symbol = "a" THEN "A" ELSE symbol

\* A list that always has room
AlwaysRoom(n) == TRUE

\* charts.length < 8
RoomForChart(n) == n < MaxCharts

Ids == {charts[i].id : i \in 1..Len(charts)}

\* handleSymbolSelect(symbol)
handleSymbolSelect(symbol) ==
    /\ clock < MaxClock
    /\ IF RoomForChart(Len(charts))
       THEN /\ charts' = Append(charts, [id |-> clock, symbol |-> toUpperCase(symbol),
                                          type |-> "line", hidden |-> FALSE])
            /\ clock' = clock + 1
       ELSE UNCHANGED <<charts, clock>>
    /\ UNCHANGED <<nEdits, marketVars, hRows, lineData, candleData, hPhase, chartData, tradeVars, newsVars>>

\* handleRemoveChart(id)
handleRemoveChart(id) ==
    /\ nEdits < MaxEdits
    /\ charts' = SelectSeq(charts, LAMBDA c : c.id # id)
    /\ nEdits' = nEdits + 1
    /\ UNCHANGED <<clock, marketVars, hRows, lineData, candleData, hPhase, chartData, tradeVars, newsVars>>

\* handleChartTypeChange(id, newType)
handleChartTypeChange(id, newType) ==
    /\ nEdits < MaxEdits
    /\ charts' = [i \in 1..Len(charts) |->
                     IF charts[i].id = id THEN [charts[i] EXCEPT !.type = newType] ELSE charts[i]]
    /\ nEdits' = nEdits + 1
    /\ UNCHANGED <<clock, marketVars, hRows, lineData, candleData, hPhase, chartData, tradeVars, newsVars>>

\* handleToggleVisibility(id)
handleToggleVisibility(id) ==
    /\ nEdits < MaxEdits
    /\ charts' = [i \in 1..Len(charts) |->
                     IF charts[i].id = id THEN [charts[i] EXCEPT !.hidden = ~@] ELSE charts[i]]
    /\ nEdits' = nEdits + 1
    /\ UNCHANGED <<clock, marketVars, hRows, lineData, candleData, hPhase, chartData, tradeVars, newsVars>>

\* newCharts.splice(fromIndex, 1) and newCharts.splice(toIndex, 0, movedChart), 0-based
Spliced(list, fromIndex, toIndex) ==
    LET movedChart == list[fromIndex + 1]
        rest == [i \in 1..(Len(list) - 1) |-> IF i <= fromIndex THEN list[i] ELSE list[i + 1]]
    IN  SubSeq(rest, 1, toIndex) \o <<movedChart>> \o SubSeq(rest, toIndex + 1, Len(rest))

\* handleReorderCharts(fromIndex, toIndex), called by ChartCart.handleDrop
\* with the indices of two different rows
handleReorderCharts(fromIndex, toIndex) ==
    /\ nEdits < MaxEdits
    /\ fromIndex < Len(charts) /\ toIndex < Len(charts) /\ fromIndex # toIndex
    /\ charts' = Spliced(charts, fromIndex, toIndex)
    /\ nEdits' = nEdits + 1
    /\ UNCHANGED <<clock, marketVars, hRows, lineData, candleData, hPhase, chartData, tradeVars, newsVars>>

ChartInit == TradeInit

ChartNext ==
    \/ \E symbol \in AddInputs : handleSymbolSelect(symbol)
    \/ \E id \in Ids : handleRemoveChart(id)
    \/ \E id \in Ids, t \in ChartTypes : handleChartTypeChange(id, t)
    \/ \E id \in Ids : handleToggleVisibility(id)
    \/ \E i, j \in 0..(MaxCharts - 1) : handleReorderCharts(i, j)

ChartSpec == ChartInit /\ [][ChartNext]_vars

(***************************************************************************)
(* useNewsFeed({ symbol }) of the news panel.                              *)
(***************************************************************************)
NewsSymbols == {"A", "B"}
NewsOutcomes == {"ok", "httpError", "reject"}

\* data.articles of the response for symbol
ArticlesOf(symbol) == <<symbol>>

\* The effect runs for a changed symbol prop: fetchNews() up to its await
NewsEffect(symbol) ==
    /\ symbol # newsSymbol
    /\ newsSymbol' = symbol
    /\ IF symbol = NoSymbol
       THEN UNCHANGED <<newsReqs, newsOut>>
       ELSE /\ Len(newsReqs) < MaxNewsReqs
            /\ newsReqs' = Append(newsReqs, [symbol |-> symbol, phase |-> "inflight"])
            /\ newsOut' = [news |-> NoArticles, loading |-> TRUE, error |-> NoError]
    /\ UNCHANGED <<marketVars, hRows, lineData, candleData, hPhase, chartData, tradeVars, chartVars>>

\* The fetch of request r settles: the rest of fetchNews()
NewsComplete(r, outcome) ==
    /\ r \in 1..Len(newsReqs)
    /\ newsReqs[r].phase = "inflight"
    /\ newsReqs' = [newsReqs EXCEPT ![r].phase = outcome]
    /\ newsOut' = IF outcome = "ok"
                  THEN [newsOut EXCEPT !.news = ArticlesOf(newsReqs[r].symbol), !.loading = FALSE]
                  ELSE [newsOut EXCEPT !.error = ErrorOf(outcome, newsReqs[r].symbol), !.loading = FALSE]
    /\ UNCHANGED <<newsSymbol, marketVars, hRows, lineData, candleData, hPhase, chartData, tradeVars, chartVars>>

NewsInit == TradeInit

NewsNext ==
    \/ \E symbol \in NewsSymbols \cup {NoSymbol} : NewsEffect(symbol)
    \/ \E r \in 1..MaxNewsReqs, o \in NewsOutcomes : NewsComplete(r, o)

NewsSpec == NewsInit /\ [][NewsNext]_vars

(***************************************************************************)
(* Properties.                                                             *)
(***************************************************************************)
Mounted(w) == widgets[w].status = "mounted"
Failures == Outcomes \ {"ok"}

RECURSIVE SumTo(_, _, _)
SumTo(n, type, k) ==
    IF n = 0 THEN 0
    ELSE SumTo(n - 1, type, k) + (IF type = "subscribe" THEN conns[n].subscribe[k] ELSE conns[n].unsubscribe[k])

\* Frames of a type sent for key k so far, over every connection
Frames(type, k) == SumTo(Len(conns), type, k)
NetFrames(k) == Frames("subscribe", k) - Frames("unsubscribe", k)

\* Consumers holding key k: instances whose load bound them to it
Refcount(k) == Cardinality({w \in Widgets : Mounted(w) /\ widgets[w].instrumentKeyRef = k})

\* One connection, open, nothing deferred, and no session that was torn down
\* is still loading or listening: every frame due has been sent
Settled ==
    /\ Len(conns) = 1
    /\ conns[1].readyState = "OPEN"
    /\ \A l \in 1..Len(loads) :
           /\ ~loads[l].openOn
           /\ widgets[loads[l].w].effect # l => loads[l].phase # "inflight" /\ ~loads[l].msgOn

\* C1: for every key, subscribe frames minus unsubscribe frames is never
\* negative and never above 1, and (once every due frame is out) it is 1
\* exactly when some consumer holds the key.
C1_NetFramesMatchRefcount ==
    \A k \in Keys :
        /\ NetFrames(k) \in {0, 1}
        /\ Settled => NetFrames(k) = (IF Refcount(k) > 0 THEN 1 ELSE 0)

\* C2: while a key is held and subscribed no further subscribe frame is
\* sent for it, and a consumer leaving while another still holds the key
\* sends no unsubscribe frame.
C2_SubscribedAtMostOnce ==
    [][\A k \in Keys :
          /\ (Refcount(k) > 0 /\ NetFrames(k) > 0) => Frames("subscribe", k)' = Frames("subscribe", k)
          /\ (Refcount(k)' > 0 /\ Refcount(k)' < Refcount(k)) =>
                 Frames("unsubscribe", k)' = Frames("unsubscribe", k)]_vars

\* C3: a load that completes after its instance moved on to another symbol
\* writes nothing of the instance's session and does not rebind its key.
C3_StaleLoadIgnored ==
    [][\A l \in 1..MaxLoads, o \in Outcomes :
          LoadComplete(l, o) =>
              LET w == loads[l].w
              IN  (Mounted(w) /\ widgets[w].effect # l) =>
                      /\ Session(widgets'[w]) = Session(widgets[w])
                      /\ widgets'[w].instrumentKeyRef = widgets[w].instrumentKeyRef]_vars

\* C4: a live_feed frame for key K changes the session only of instances
\* bound to K's instrument.
C4_TickOnlyItsKey ==
    [][\A c \in 1..MaxConns, k \in FeedKeys, p \in LtpValues :
          Tick(c, k, p) =>
              \A w \in Widgets :
                  (Mounted(w) /\ Session(widgets'[w]) # Session(widgets[w])) =>
                      widgets[w].instrumentKeyRef[1] = k[1]]_vars

\* C5: at most one connection is connecting or open at any time.
C5_OneConnection ==
    Cardinality({c \in 1..Len(conns) : conns[c].readyState \in {"CONNECTING", "OPEN"}}) <= 1

\* C6: a session whose teardown has run (its effect is no longer the current
\* one of a mounted instance) holds no message and no open listener.
C6_TornDownIsDetached ==
    \A l \in 1..Len(loads) :
        widgets[loads[l].w].effect # l => ~loads[l].msgOn /\ ~loads[l].openOn

\* C7: a live_feed frame changes nothing of a session whose load for its
\* current symbol is still in flight.
C7_NoTickWhileLoading ==
    [][\A c \in 1..MaxConns, k \in FeedKeys, p \in LtpValues :
          Tick(c, k, p) =>
              \A w \in Widgets :
                  (Mounted(w) /\ widgets[w].effect # 0 /\ loads[widgets[w].effect].phase = "inflight") =>
                      Session(widgets'[w]) = Session(widgets[w])]_vars

\* C8: a failing load writes no quote and no series: what the fetch that
\* succeeded returned is discarded.
C8_FailedLoadDiscardsAll ==
    [][\A l \in 1..MaxLoads, o \in Failures :
          LoadComplete(l, o) =>
              LET w == loads[l].w
              IN  /\ widgets'[w].quote = widgets[w].quote
                  /\ widgets'[w].candles = widgets[w].candles
                  /\ widgets'[w].ohlcCandles = widgets[w].ohlcCandles]_vars

\* A failed current load: the error is kept and loading is over
ErrorRetained ==
    \A w \in Widgets :
        (Mounted(w) /\ widgets[w].effect # 0 /\ loads[widgets[w].effect].phase = "failed") =>
            widgets[w].error # NoError /\ ~widgets[w].loading

\* C9: every failing load sets the error of its instance and clears loading,
\* sends no frame and attaches no listener; the error stays until the next
\* effect run.
C9_FailureIsErrorAndInactive ==
    /\ []ErrorRetained
    /\ [][\A l \in 1..MaxLoads, o \in Failures :
             LoadComplete(l, o) =>
                 LET w == loads[l].w
                 IN  /\ conns' = conns
                     /\ ~loads'[l].msgOn /\ ~loads'[l].openOn
                     /\ Mounted(w) =>
                            /\ widgets'[w].error = ErrorOf(o, loads[l].symbol)
                            /\ widgets'[w].error # NoError
                            /\ ~widgets'[w].loading]_vars

C9_Witness ==
    \E w \in Widgets :
        /\ Mounted(w) /\ widgets[w].effect # 0
        /\ loads[widgets[w].effect].phase = "failed"
        /\ widgets[w].error = ErrorOf("noKey", widgets[w].symbol)
        /\ ~widgets[w].loading
        /\ ~loads[widgets[w].effect].msgOn

\* A row every field of which is present and converts to a finite number
ValidRow(row) ==
    /\ row.isArray
    /\ Len(row.f) >= 5
    /\ \A i \in 1..5 : row.f[i].k \in {"num", "numstr"}

AllValid == \A i \in 1..Len(hRows) : ValidRow(hRows[i])

\* C10: N valid rows give N line points and N candles in the input order;
\* the i-th point and the i-th candle carry the i-th row's timestamp and the
\* line value is the candle's close.
C10_SeriesAligned ==
    (hPhase = "mapped" /\ AllValid) =>
        /\ Len(lineData) = Len(hRows)
        /\ Len(candleData) = Len(hRows)
        /\ \A i \in 1..Len(hRows) :
               /\ lineData[i].t = hRows[i].f[1].v
               /\ candleData[i].x = lineData[i].t
               /\ candleData[i].c = Fin(hRows[i].f[5].v)
               /\ lineData[i].y = candleData[i].c

C10_Witness ==
    /\ hPhase = "mapped"
    /\ AllValid
    /\ Len(hRows) >= 2
    /\ hRows[1] # hRows[2]
    /\ Len(lineData) = Len(hRows)

\* A JS number that is neither NaN nor infinite
Finite(x) == x.t = "fin"

\* A row with a parsable timestamp and four finite prices
WellFormed(row) ==
    /\ row.isArray
    /\ Finite(DateGetTime(Elem(row, 1)))
    /\ \A i \in 2..5 : Finite(Number(Elem(row, i)))

\* C11: rows with a non-finite price (NaN or infinite) or an unparsable
\* timestamp are dropped and both series hold exactly the remaining rows, in
\* their order.
C11_MalformedRowsDropped ==
    hPhase = "mapped" =>
        LET kept == SelectSeq(hRows, WellFormed)
        IN  /\ Len(lineData) = Len(kept)
            /\ Len(candleData) = Len(kept)
            /\ \A i \in 1..Len(kept) :
                   /\ lineData[i].t = DateGetTime(Elem(kept[i], 1)).v
                   /\ lineData[i].y = Number(Elem(kept[i], 5))
                   /\ candleData[i] = [x |-> lineData[i].t, o |-> Number(Elem(kept[i], 2)),
                                       h |-> Number(Elem(kept[i], 3)), l |-> Number(Elem(kept[i], 4)),
                                       c |-> lineData[i].y]

\* C12: the load reports a dropped-row count, equal to the number of input
\* rows left out of the series (so at least 1 when a malformed row is there).
C12_DroppedCountReported ==
    hPhase = "mapped" =>
        /\ "dropped" \in DOMAIN LoadReport
        /\ LoadReport.dropped = Len(hRows) - Len(lineData)

\* The j-th point of everything the line series of symbol was given: the
\* history rows, then the ticks
GivenPoint(symbol, j) ==
    IF j <= HistoryLen(symbol)
    THEN MapRow(HistoryRow(symbol, j)).line
    ELSE [t |-> 5000 + (j - HistoryLen(symbol)) - 1, y |-> Fin(j - HistoryLen(symbol))]

\* C13: points appended one at a time are evicted first-in first-out: once a
\* point has been appended the series holds the most recent min(k, 2000) of
\* the k points given, in arrival order.  It holds for the hook's line series
\* (history points, then ticks) and for the chart's dataset (points 0, 1, ...).
C13_FifoWindow ==
    /\ (nTicks >= 1 /\ widgets[1].status = "mounted") =>
           LET k == HistoryLen(widgets[1].symbol) + nTicks
               n == Len(widgets[1].candles)
           IN  /\ n = (IF k <= 2000 THEN k ELSE 2000)
               /\ \A i \in 1..n : widgets[1].candles[i] = GivenPoint(widgets[1].symbol, k - n + i)
    /\ LET k == ChartFed
           n == Len(chartData)
       IN  /\ n = (IF k <= 2000 THEN k ELSE 2000)
           /\ \A i \in 1..n : chartData[i] = [x |-> Fin(k - n + i - 1), y |-> Fin(k - n + i - 1)]

\* 2500 points given to an empty series: the last 2000 are left
C13_Witness ==
    /\ widgets[1].symbol = "E"
    /\ nTicks = 2500
    /\ Len(widgets[1].candles) = 2000
    /\ widgets[1].candles[1].y = Fin(501)
    /\ widgets[1].candles[2000].y = Fin(2500)

Max(S) == CHOOSE x \in S : \A y \in S : y <= x
Min(S) == CHOOSE x \in S : \A y \in S : x <= y

\* The session of widget 1 has loaded its history and listens for ticks
Streaming ==
    /\ widgets[1].status = "mounted"
    /\ widgets[1].effect # 0
    /\ loads[widgets[1].effect].phase = "loaded"

\* The prices of the ticks applied to widget 1 since its load, in order: the
\* line series past the history points
AppliedLtps ==
    [i \in 1..(Len(widgets[1].candles) - HistoryLen(widgets[1].symbol)) |->
        widgets[1].candles[HistoryLen(widgets[1].symbol) + i].y.v]

\* C15: after any sequence of applied ticks on a non-empty candle series only
\* the last candle has changed: close = latest ltp, high = max and low = min
\* of the loaded value and all ltps, open and timestamp as loaded, earlier
\* candles and the length as loaded.
C15_OnlyLastCandleMoves ==
    (Streaming /\ HistoryLen(widgets[1].symbol) > 0 /\ Len(AppliedLtps) > 0) =>
        LET hist == CandleOf(HistoryRows(widgets[1].symbol))
            n == Len(hist)
            ltps == {AppliedLtps[i] : i \in 1..Len(AppliedLtps)}
            now == widgets[1].ohlcCandles
        IN  /\ Len(now) = n
            /\ \A i \in 1..(n - 1) : now[i] = hist[i]
            /\ now[n].o = hist[n].o
            /\ now[n].x = hist[n].x
            /\ now[n].c = Fin(AppliedLtps[Len(AppliedLtps)])
            /\ now[n].h = Fin(Max(ltps \cup {hist[n].h.v}))
            /\ now[n].l = Fin(Min(ltps \cup {hist[n].l.v}))

\* History [100, 105, 98, 102], then ltp 106 and ltp 103
C15_Witness ==
    /\ Streaming
    /\ widgets[1].symbol = "A"
    /\ AppliedLtps = <<106, 103>>
    /\ widgets[1].ohlcCandles = <<[x |-> 1000, o |-> Fin(100), h |-> Fin(106), l |-> Fin(98), c |-> Fin(103)]>>

\* C16: for a subscribed session a feed entry keyed by either encoding of
\* its instrument key (pipe or colon) is applied, whichever encoding the
\* history response used; a frame with neither encoding changes nothing.
C16_EitherEncodingApplied ==
    [][\A k \in SessionFeedKeys, p \in TickPrices \ {0} :
          (Streaming /\ SessionTick(k, p)) =>
              IF k[1] = widgets[1].symbol
              THEN /\ widgets'[1].quote.last_price = p
                   /\ Len(widgets'[1].candles) = Len(widgets[1].candles) + 1
              ELSE Session(widgets'[1]) = Session(widgets[1])]_vars

\* C18: every tick with a numeric ltp for the session's key, zero included,
\* sets the quote's last price to ltp and its timestamp to the tick time,
\* sets net_change to ltp - open when the open is known and leaves it
\* otherwise, and leaves the quote's open and name as they were.
C18_TickSetsQuote ==
    [][\A p \in TickPrices :
          (Streaming /\ SessionTick(loads[widgets[1].effect].currentKey, p)) =>
              LET q == widgets[1].quote
                  r == widgets'[1].quote
              IN  /\ r.last_price = p
                  /\ r.timestamp = TickTs
                  /\ IF q.hasOpen
                     THEN r.hasNetChange /\ r.net_change = p - q.open
                     ELSE r.hasNetChange = q.hasNetChange /\ r.net_change = q.net_change
                  /\ r.name = q.name
                  /\ r.hasOpen = q.hasOpen
                  /\ r.open = q.open]_vars

\* C19: a tick applied to a session whose candle series is empty makes no
\* candle, however many ticks come: the candle series stays empty, the quote
\* takes the tick and the line series gains the tick's point.
C19_NoCandleSynthesized ==
    /\ [](Streaming /\ HistoryLen(widgets[1].symbol) = 0 => widgets[1].ohlcCandles = <<>>)
    /\ [][\A k \in SessionFeedKeys, p \in TickPrices :
             (/\ Streaming
              /\ widgets[1].ohlcCandles = <<>>
              /\ FeedFound(loads[widgets[1].effect].currentKey, k)
              /\ Accepted(p)
              /\ SessionTick(k, p)) =>
                 /\ widgets'[1].ohlcCandles = <<>>
                 /\ widgets'[1].candles = Append(widgets[1].candles, [t |-> TickTs, y |-> Fin(p)])
                 /\ widgets'[1].quote.last_price = p
                 /\ widgets'[1].quote.timestamp = TickTs]_vars

\* Three ticks applied to the session of a symbol without candles
C19_Witness ==
    /\ Streaming
    /\ widgets[1].symbol = "E"
    /\ Len(widgets[1].candles) = 3
    /\ widgets[1].ohlcCandles = <<>>
    /\ widgets[1].quote.last_price = widgets[1].candles[3].y.v

\* C17: the error and close events of a connection change no session's
\* quote, line series or candle series.
C17_CloseKeepsData ==
    [][\A c \in 1..MaxConns :
          (SocketClose(c) \/ SocketError(c)) =>
              \A w \in Widgets :
                  /\ widgets'[w].quote = widgets[w].quote
                  /\ widgets'[w].candles = widgets[w].candles
                  /\ widgets'[w].ohlcCandles = widgets[w].ohlcCandles]_vars

\* A session shows its loaded data and its connection has closed
C17_Witness ==
    \E w \in Widgets :
        /\ Mounted(w) /\ widgets[w].effect # 0
        /\ loads[widgets[w].effect].phase = "loaded"
        /\ conns[loads[widgets[w].effect].ws].readyState = "CLOSED"
        /\ widgets[w].quote = QuoteOf(widgets[w].symbol)
        /\ widgets[w].candles = LineOf(HistoryRows(widgets[w].symbol))
        /\ widgets[w].ohlcCandles = CandleOf(HistoryRows(widgets[w].symbol))

\* C20: a successful load sends its subscribe frame at once when its
\* connection is open; otherwise it sends nothing and defers the frame, and
\* the open event of that connection sends each deferred frame exactly once.
\* No connection carries a subscribe frame before it has opened.
C20_SubscribeNowOrOnOpen ==
    /\ [](\A c \in 1..Len(conns) :
             conns[c].readyState = "CONNECTING" => \A k \in Keys : conns[c].subscribe[k] = 0)
    /\ [][\A l \in 1..MaxLoads :
             LoadComplete(l, "ok") =>
                 LET c == loads[l].ws
                     key == HistoryKey(loads[l].symbol)
                 IN  IF conns[c].readyState = "OPEN"
                     THEN /\ conns' = [conns EXCEPT ![c].subscribe[key] = @ + 1]
                          /\ ~loads'[l].openOn
                     ELSE /\ conns' = conns
                          /\ loads'[l].openOn]_vars
    /\ [][\A c \in 1..MaxConns :
             SocketOpen(c) =>
                 /\ \A k \in Keys :
                        conns'[c].subscribe[k] = conns[c].subscribe[k] +
                            Cardinality({l \in 1..Len(loads) :
                                            loads[l].ws = c /\ loads[l].openOn /\ loads[l].currentKey = k})
                 /\ \A l \in 1..Len(loads) : loads[l].ws = c => ~loads'[l].openOn
                 /\ \A d \in 1..Len(conns) : d # c => conns'[d] = conns[d]]_vars

\* One load's deferred subscribe has been sent by the open event, once; the
\* subscribe of another load waits for its connection to open
C20_Witness ==
    \E l1, l2 \in 1..Len(loads) :
        /\ loads[l1].phase = "loaded" /\ ~loads[l1].openOn
        /\ conns[loads[l1].ws].readyState = "OPEN"
        /\ conns[loads[l1].ws].subscribe[loads[l1].currentKey] = 1
        /\ loads[l2].phase = "loaded" /\ loads[l2].openOn
        /\ conns[loads[l2].ws].readyState = "CONNECTING"

\* C21: no subscribe or unsubscribe frame is written to a connection that
\* is not open: a connecting socket carries no frame, every step that adds a
\* frame to a connection leaves that connection OPEN, and a release while the
\* shared connection is not open sends nothing.
C21_SendsOnlyWhenOpen ==
    /\ [](\A c \in 1..Len(conns) :
             conns[c].readyState = "CONNECTING" =>
                 conns[c].subscribe = NoFrames /\ conns[c].unsubscribe = NoFrames)
    /\ [][\A c \in 1..Len(conns) :
             (conns'[c].subscribe # conns[c].subscribe \/ conns'[c].unsubscribe # conns[c].unsubscribe) =>
                 /\ conns'[c].readyState = "OPEN"
                 /\ conns[c].readyState \in {"OPEN", "CONNECTING"}]_vars
    /\ [][\A w \in Widgets :
             (Unmount(w) /\ ~IsOpen(conns, wsSingleton)) => conns' = conns]_vars

\* A session subscribed, its connection closed, and it was then released:
\* the closed connection carries the subscribe and no unsubscribe
C21_Witness ==
    /\ Len(loads) = 1 /\ Len(conns) = 1
    /\ widgets[1].status = "unmounted"
    /\ loads[1].phase = "loaded" /\ ~loads[1].msgOn
    /\ conns[1].readyState = "CLOSED"
    /\ conns[1].subscribe[loads[1].currentKey] = 1
    /\ conns[1].unsubscribe = NoFrames

\* C22: releasing a key that was already released is a no-op: one change of
\* symbol releases the old key once, so it sends at most one unsubscribe
\* frame for it.
C22_DoubleReleaseNoOp ==
    [][\A w \in Widgets, s \in Symbols :
          SwitchSymbol(w, s) =>
              \A c \in 1..Len(conns), k \in Keys :
                  conns'[c].unsubscribe[k] <= conns[c].unsubscribe[k] + 1]_vars

ActiveOn(c) == {w \in Widgets : Mounted(w) /\ widgets[w].effect # 0 /\ loads[widgets[w].effect].ws = c}

\* C24: after the shared connection closes every active session carries an
\* error signal in the state it exposes.
C24_CloseSurfaced ==
    [][\A c \in 1..MaxConns :
          SocketClose(c) => \A w \in ActiveOn(c) : widgets'[w].error # NoError]_vars

\* C25: the close of a connection other than the singleton's leaves the
\* singleton pointing to the newer, live connection.
C25_OldCloseKeepsSingleton ==
    [][\A c \in 1..MaxConns :
          (/\ SocketClose(c)
           /\ wsSingleton # 0 /\ wsSingleton # c
           /\ wsSingleton = Len(conns)
           /\ conns[wsSingleton].readyState \in {"OPEN", "CONNECTING"}) =>
              wsSingleton' = wsSingleton]_vars

\* C26: a session's unsubscribe frame goes to the connection on which the
\* session subscribed and listens, never to another one.
C26_UnsubscribeOnOwnConnection ==
    [][\A w \in Widgets :
          (Unmount(w) /\ widgets[w].cleanupRef # 0) =>
              \A c \in 1..Len(conns) :
                  c # loads[widgets[w].cleanupRef].ws => conns'[c] = conns[c]]_vars

\* A trade the account cannot carry
Rejected(t) ==
    \/ t.type = "buy" /\ t.quantity * t.price > balance
    \/ t.type = "sell" /\ (t.symbol \notin DOMAIN portfolio \/ portfolio[t.symbol].quantity < t.quantity)

\* C27: a rejected paper trade (a buy costing more than the balance, a sell
\* of more shares than held) changes neither the trade history nor the
\* portfolio nor the balance.
C27_RejectedTradeNoEffect ==
    [][\A t \in Trades :
          (Rejected(t) /\ handleTrade(t)) =>
              /\ trades' = trades
              /\ portfolio' = portfolio
              /\ balance' = balance]_vars

\* C28: starting from balance 100000 and an empty portfolio, after any
\* trades with quantity >= 1 and price >= 0 the balance is not negative and
\* every symbol in the portfolio is held with a quantity of at least 1.
C28_AccountStaysSound ==
    /\ balance >= 0
    /\ \A sym \in DOMAIN portfolio : portfolio[sym].quantity >= 1

\* A share bought at 30000 was sold at 60000: the holding is gone
C28_Witness ==
    /\ Len(trades) = 2
    /\ trades[1].type = "buy" /\ trades[2].type = "sell"
    /\ balance = 130000
    /\ portfolio = EmptyObject

\* C29: the dashboard never holds more than 8 charts; an add with 8 charts
\* present leaves the list as it is; reorder, toggle and type change keep
\* the number of charts.
C29_AtMostEightCharts ==
    /\ [](Len(charts) <= 8)
    /\ [][\A symbol \in AddInputs :
             (Len(charts) = 8 /\ handleSymbolSelect(symbol)) => charts' = charts]_vars
    /\ [][(\/ \E i, j \in 0..7 : handleReorderCharts(i, j)
           \/ \E id \in Ids : handleToggleVisibility(id)
           \/ \E id \in Ids, t \in ChartTypes : handleChartTypeChange(id, t)) =>
              Len(charts') = Len(charts)]_vars

\* Eight charts, one of them hidden and one moved to the front
C29_Witness ==
    /\ Len(charts) = 8
    /\ nEdits = 2
    /\ charts[1].id # 1
    /\ \E i \in 1..8 : charts[i].hidden

\* What the hook shows for one settled request alone
ResultOf(req) ==
    IF req.phase = "ok"
    THEN [news |-> ArticlesOf(req.symbol), loading |-> FALSE, error |-> NoError]
    ELSE [news |-> NoArticles, loading |-> FALSE, error |-> ErrorOf(req.phase, req.symbol)]

\* C30: the symbol changed while the earlier request was outstanding; once
\* every request has completed, in whatever order, the news, error and
\* loading flag are those of the response for the current symbol: a late
\* response for the earlier symbol does not overwrite it.
C30_LatestNewsWins ==
    (/\ Len(newsReqs) >= 2
     /\ newsSymbol # NoSymbol
     /\ \A r \in 1..Len(newsReqs) : newsReqs[r].phase # "inflight") =>
        newsOut = ResultOf(newsReqs[Len(newsReqs)])

====
